---- MODULE Spec2Model ----
\* DijkstraVisualizer (src/dijkstra_visualizer.py): a step-recording Dijkstra
\* engine.  One engine object holds `graph` and `steps`; run(start_node) is
\* modelled statement by statement, one action per loop step.
EXTENDS Integers, Sequences, FiniteSets, TLC

\* ---------------------------------------------------------------- bounds
MaxEdges == 2       \* edges of an enumerated input graph
MaxW == 1           \* largest weight of an enumerated input graph (0..MaxW)
MaxRuns == 2        \* run() calls made in one behaviour on the RepeatGraphs

\* Node identifiers.  The code's identifiers are opaque comparable tokens
\* ('A' < 'B' < ...); integers stand for them, compared the same way.  An
\* enumerated graph takes its keys, its edge targets and its start nodes from
\* Ids, so edges to identifiers that are no key and start nodes that are no key
\* are among the inputs.
Ids == {1, 2, 3}
ExampleIds == {1, 2, 3, 4}

\* float('inf') of line 51.  Distances are otherwise naturals.
Inf == -1

\* Python's < over naturals and inf
Less(a, b) == a # Inf /\ (b = Inf \/ a < b)

\* <= where the code has <
ImprovesOrEqual(new_distance, old) == Less(new_distance, old) \/ new_distance = old

\* the update made without the test
AlwaysImproves(new_distance, old) == TRUE

\* the test of line 78: new_distance < distances[neighbor]
Improves(new_distance, old) == Less(new_distance, old)

\* current_distance + weight (line 76); inf + w = inf
Plus(a, w) == IF a = Inf THEN Inf ELSE a + w

\* ---------------------------------------------------------------- inputs
Weights == 0..MaxW
Triples == Ids \X Ids \X Weights

\* an edge t may follow the edge list es: no (u, v) twice, sources grouped in
\* nondecreasing order (so one list per adjacency-ordered graph)
MayFollow(es, t) ==
  /\ \A i \in 1..Len(es) : ~(es[i][1] = t[1] /\ es[i][2] = t[2])
  /\ (Len(es) > 0 => es[Len(es)][1] <= t[1])

RECURSIVE EdgeSeqLayers(_)
\* <<L0, ..., Lk>>: Li the edge lists <<u, v, w>> of length i
EdgeSeqLayers(k) ==
  IF k = 0 THEN << {<< >>} >>
  ELSE LET prev == EdgeSeqLayers(k - 1)
       IN  Append(prev, UNION { { Append(es, t) : t \in { x \in Triples : MayFollow(es, x) } }
                                : es \in prev[k] })

EdgeSeqs == UNION { EdgeSeqLayers(MaxEdges)[i] : i \in 1..(MaxEdges + 1) }

\* the dict of dicts: keys -> insertion-ordered list of <<neighbor, weight>>
MkGraph(keys, es) ==
  [u \in keys |->
     LET mine == SelectSeq(es, LAMBDA e : e[1] = u)
     IN  [i \in 1..Len(mine) |-> <<mine[i][2], mine[i][3]>>]]

Sources(es) == { es[i][1] : i \in DOMAIN es }

\* the graph of the docstring and of __main__ (A..D as 1..4)
ExampleGraph ==
  (1 :> << <<2, 4>>, <<3, 1>> >>) @@
  (2 :> << <<1, 4>>, <<3, 2>>, <<4, 5>> >>) @@
  (3 :> << <<1, 1>>, <<2, 2>>, <<4, 8>> >>) @@
  (4 :> << <<2, 5>>, <<3, 8>> >>)

\* {A:{B:1}, B:{}, C:{}} and {A:{}}
DisconnectedGraph == (1 :> << <<2, 1>> >>) @@ (2 :> << >>) @@ (3 :> << >>)
SingleNodeGraph == (1 :> << >>)

\* two frontier entries with the same tentative distance: {A:{C:1, B:1}, B:{}, C:{}}
TieGraph == (1 :> << <<3, 1>>, <<2, 1>> >>) @@ (2 :> << >>) @@ (3 :> << >>)

\* a second, better entry for C leaves a stale one: {A:{C:2, B:0}, B:{C:1}, C:{A:1}}
StaleGraph == (1 :> << <<3, 2>>, <<2, 0>> >>) @@ (2 :> << <<3, 1>> >>) @@ (3 :> << <<1, 1>> >>)

\* a second candidate for C equal to its recorded distance: {A:{C:1, B:0}, B:{C:1}, C:{}}
EqualGraph == (1 :> << <<3, 1>>, <<2, 0>> >>) @@ (2 :> << <<3, 1>> >>) @@ (3 :> << >>)

\* graphs on which the caller makes several run() calls
RepeatGraphs == {DisconnectedGraph, SingleNodeGraph, TieGraph, StaleGraph}

IdsOf(g) == IF g = ExampleGraph THEN ExampleIds ELSE Ids

\* ---------------------------------------------------------------- state
VARIABLES
  graph,            \* self.graph
  steps,            \* self.steps
  hashOrder,        \* the identifiers put in a set so far, in the order this
                    \* process's hashing iterates them
  pc,               \* "idle" | "loop" (line 57) | "relax" (line 74)
  start_node,
  distances,
  visited,
  priority_queue,
  current_distance,
  current_node,
  idx,              \* position of the for loop of line 74 in graph[current_node]
  examined,         \* the edges <<node, position>> the for loop of line 74 has
                    \* taken up in the current call, in order
  shared,           \* positions of self.steps whose "distances" is the live
                    \* table object itself, not a copy of it
  base,             \* Len(self.steps) when the current call began
  engine,           \* which DijkstraVisualizer instance is live (0, 1, ...)
  returns,          \* one record per finished call, in call order
  calls_left        \* calls the caller will still make

vars == <<graph, steps, hashOrder, pc, start_node, distances, visited,
          priority_queue, current_distance, current_node, idx, examined,
          shared, base, engine, returns, calls_left>>

\* a local that does not exist (outside a call) is written 0

\* ------------------------------------------------------------- helpers
SeqRange(q) == { q[i] : i \in DOMAIN q }

\* Where a set iterates an identifier relative to the others is fixed by its
\* hash, which the code does not control: the first time n enters a set it
\* may fall anywhere among the identifiers already seen, and stays there.
Placements(order, n) ==
  IF n \in SeqRange(order) THEN {order}
  ELSE { [i \in 1..(Len(order) + 1) |->
            IF i <= pos THEN order[i] ELSE IF i = pos + 1 THEN n ELSE order[i - 1]]
         : pos \in 0..Len(order) }

\* an iteration order that differs from one engine instance to the next
ListPerEngine(order, S) ==
  LET fwd == SelectSeq(order, LAMBDA x : x \in S)
  IN  IF engine % 2 = 0 THEN fwd ELSE [i \in 1..Len(fwd) |-> fwd[Len(fwd) + 1 - i]]

\* list(visited), line 70: the set's elements in the process's hash order
ListOfSet(order, S) == SelectSeq(order, LAMBDA x : x \in S)

\* distances.copy(), lines 69 and 88
DictCopy(d) == [n \in DOMAIN d |-> d[n]]

\* priority_queue is kept as the list of its entries: heapq's array layout is
\* not observable, heappop returns the least entry under tuple comparison.
\* tuple comparison (dist, node) < (dist', node') used by heapq
TupleLess(p, q) == Less(p[1], q[1]) \/ (p[1] = q[1] /\ p[2] < q[2])

\* a plain queue in place of the heap: the oldest entry
FifoIndex(pq) == 1

\* index of the entry heappop returns: the least tuple
HeapMinIndex(pq) ==
  CHOOSE i \in 1..Len(pq) :
    /\ \A j \in 1..Len(pq) : ~TupleLess(pq[j], pq[i])
    /\ \A j \in 1..(i - 1) : pq[j] # pq[i]

HeapTop(pq) == pq[HeapMinIndex(pq)]

\* the least entry read but left in the queue
HeapPeek(pq) == pq

\* the queue after heapq.heappop(pq)
HeapPop(pq) ==
  LET m == HeapMinIndex(pq)
  IN  [i \in 1..(Len(pq) - 1) |-> IF i < m THEN pq[i] ELSE pq[i + 1]]

\* the frontier entry left out
NoPush(pq, item) == pq

\* the queue after heapq.heappush(pq, item)
HeapPush(pq, item) == Append(pq, item)

\* the stale-entry test left out
NeverVisited(node, vis) == FALSE

\* the test of line 60: current_node in visited
AlreadyVisited(node, vis) == node \in vis

\* visited = {current_node} where the code adds to the set
OnlyCurrent(vis, node) == {node}

\* visited.add(current_node), line 63
AddVisited(vis, node) == vis \cup {node}

\* the table itself stored in the event, with no .copy()
StoresTableItself(d) == TRUE

\* whether the object stored as an event's "distances" is the table d itself:
\* distances.copy() (lines 69, 88) makes a new dict
SharesTable(d) == FALSE

\* distances[neighbor] = new_distance (line 79) assigns in place: every event
\* holding the table object itself shows the new table
WriteThrough(tr, sh, d) ==
  [i \in DOMAIN tr |-> IF i \in sh THEN [tr[i] EXCEPT !.distances = d] ELSE tr[i]]

\* the positions sharing the table once the event at position i is stored
SharedWith(sh, d, i) == IF SharesTable(d) THEN sh \cup {i} ELSE sh

\* the trace replaced by the new event
Overwrite(tr, ev) == << ev >>

\* self.steps.append(event), lines 66 and 83
Record(tr, ev) == Append(tr, ev)

VisitEvent(n, d, order, v) ==
  [action |-> "visit_node", current_node |-> n, distances |-> DictCopy(d),
   visited_nodes |-> ListOfSet(order, v)]

RelaxEvent(f, t, nd, d) ==
  [action |-> "relax_edge", from |-> f, to |-> t, updated_distance |-> nd,
   distances |-> DictCopy(d)]

\* an entry for every identifier, in the graph or not
AllIdsDistances(g, s) == [n \in Ids \cup (DOMAIN g) \cup {s} |-> IF n = s THEN 0 ELSE Inf]

\* every node started at 0
AllZeroDistances(g, s) == [n \in (DOMAIN g) \cup {s} |-> 0]

\* {node: float('inf') for node in self.graph}; distances[start_node] = 0
InitDistances(g, s) == [n \in (DOMAIN g) \cup {s} |-> IF n = s THEN 0 ELSE Inf]

\* the locals of run() do not exist outside a call
NoLocals ==
  /\ start_node' = 0
  /\ distances' = << >>
  /\ visited' = {}
  /\ priority_queue' = << >>
  /\ current_distance' = 0
  /\ current_node' = 0
  /\ idx' = 0

\* what a call left behind: the returned (distances, self.steps), or the
\* KeyError raised with the missing key and self.steps as the call left it
CallRecord(outcome, key, d, tr) ==
  [outcome |-> outcome, key |-> key, start |-> start_node, engine |-> engine,
   base |-> base, distances |-> d, steps |-> tr]

\* ---------------------------------------------------------------- Init
\* A fresh engine on an input graph.  The caller makes one call on an
\* enumerated graph and on the __main__ graph, up to MaxRuns calls on the
\* RepeatGraphs.
Init ==
  /\ \/ /\ \E keys \in SUBSET Ids : \E es \in EdgeSeqs :
             Sources(es) \subseteq keys /\ graph = MkGraph(keys, es)
        /\ calls_left = 1
     \/ graph \in {ExampleGraph, EqualGraph} /\ calls_left = 1
     \/ graph \in RepeatGraphs /\ calls_left = MaxRuns
  /\ hashOrder = << >>
  /\ steps = << >>
  /\ pc = "idle"
  /\ start_node = 0
  /\ distances = << >>
  /\ visited = {}
  /\ priority_queue = << >>
  /\ current_distance = 0
  /\ current_node = 0
  /\ idx = 0
  /\ examined = << >>
  /\ shared = {}
  /\ base = 0
  /\ engine = 0
  /\ returns = << >>

\* ------------------------------------------------------------- actions
\* DijkstraVisualizer(graph): a fresh engine on the same graph, replacing one
\* that has been used
NewEngine ==
  /\ pc = "idle"
  /\ calls_left > 0
  /\ steps # << >>
  /\ steps' = << >>
  /\ shared' = {}
  /\ base' = 0
  /\ engine' = engine + 1
  /\ UNCHANGED <<graph, hashOrder, pc, start_node, distances, visited,
                 priority_queue, current_distance, current_node, idx, examined,
                 returns, calls_left>>

\* lines 51-55
Call(s) ==
  /\ pc = "idle"
  /\ calls_left > 0
  /\ calls_left' = calls_left - 1
  /\ start_node' = s
  /\ distances' = InitDistances(graph, s)
  /\ visited' = {}
  /\ priority_queue' = << <<0, s>> >>
  /\ examined' = << >>
  /\ shared' = {}
  /\ base' = Len(steps)
  /\ pc' = "loop"
  /\ UNCHANGED <<graph, steps, hashOrder, current_distance, current_node, idx,
                 engine, returns>>

\* line 57 false, line 91
Return ==
  /\ pc = "loop"
  /\ priority_queue = << >>
  /\ returns' = Append(returns, CallRecord("ok", 0, distances, steps))
  /\ pc' = "idle"
  /\ NoLocals
  /\ UNCHANGED <<graph, steps, hashOrder, examined, shared, base, engine, calls_left>>

\* lines 58-61: pop, node already visited, continue
PopStale ==
  /\ pc = "loop"
  /\ priority_queue # << >>
  /\ AlreadyVisited(HeapTop(priority_queue)[2], visited)
  /\ current_distance' = HeapTop(priority_queue)[1]
  /\ current_node' = HeapTop(priority_queue)[2]
  /\ priority_queue' = HeapPop(priority_queue)
  /\ UNCHANGED <<graph, steps, hashOrder, pc, start_node, distances, visited,
                 idx, examined, shared, base, engine, returns, calls_left>>

\* where control goes once the for loop of line 74 stands at position i
AfterEdge(node, i) == IF i > Len(graph[node]) THEN "loop" ELSE "relax"

\* lines 58-74: pop, visit, record, enter the for loop
Visit ==
  /\ pc = "loop"
  /\ priority_queue # << >>
  /\ LET top == HeapTop(priority_queue)
     IN  /\ ~AlreadyVisited(top[2], visited)
         /\ top[2] \in DOMAIN graph
         /\ current_distance' = top[1]
         /\ current_node' = top[2]
         /\ visited' = AddVisited(visited, top[2])
         /\ hashOrder' \in Placements(hashOrder, top[2])
         /\ steps' = Record(steps, VisitEvent(top[2], distances, hashOrder', visited'))
         /\ shared' = SharedWith(shared, distances, Len(steps'))
         /\ idx' = 1
         /\ pc' = AfterEdge(top[2], 1)
  /\ priority_queue' = HeapPop(priority_queue)
  /\ UNCHANGED <<graph, start_node, distances, examined, base, engine, returns,
                 calls_left>>

\* lines 58-74 when self.graph[current_node] raises KeyError
VisitKeyError ==
  /\ pc = "loop"
  /\ priority_queue # << >>
  /\ LET top == HeapTop(priority_queue)
     IN  /\ ~AlreadyVisited(top[2], visited)
         /\ top[2] \notin DOMAIN graph
         /\ hashOrder' \in Placements(hashOrder, top[2])
         /\ steps' = Record(steps, VisitEvent(top[2], distances, hashOrder',
                                              AddVisited(visited, top[2])))
         /\ shared' = SharedWith(shared, distances, Len(steps'))
         /\ returns' = Append(returns, CallRecord("KeyError", top[2], << >>, steps'))
  /\ pc' = "idle"
  /\ NoLocals
  /\ UNCHANGED <<graph, examined, base, engine, calls_left>>

Neighbor == graph[current_node][idx][1]
Weight == graph[current_node][idx][2]

\* line 75 false
SkipVisited ==
  /\ pc = "relax"
  /\ Neighbor \in visited
  /\ examined' = Append(examined, <<current_node, idx>>)
  /\ idx' = idx + 1
  /\ pc' = AfterEdge(current_node, idx + 1)
  /\ UNCHANGED <<graph, steps, hashOrder, start_node, distances, visited,
                 priority_queue, current_distance, current_node, shared, base,
                 engine, returns, calls_left>>

\* line 78: distances[neighbor] raises KeyError
EdgeKeyError ==
  /\ pc = "relax"
  /\ Neighbor \notin visited
  /\ Neighbor \notin DOMAIN distances
  /\ returns' = Append(returns, CallRecord("KeyError", Neighbor, << >>, steps))
  /\ examined' = Append(examined, <<current_node, idx>>)
  /\ pc' = "idle"
  /\ NoLocals
  /\ UNCHANGED <<graph, steps, hashOrder, shared, base, engine, calls_left>>

\* line 78 false
NoImprove ==
  /\ pc = "relax"
  /\ Neighbor \notin visited
  /\ Neighbor \in DOMAIN distances
  /\ ~Improves(Plus(current_distance, Weight), distances[Neighbor])
  /\ examined' = Append(examined, <<current_node, idx>>)
  /\ idx' = idx + 1
  /\ pc' = AfterEdge(current_node, idx + 1)
  /\ UNCHANGED <<graph, steps, hashOrder, start_node, distances, visited,
                 priority_queue, current_distance, current_node, shared, base,
                 engine, returns, calls_left>>

\* lines 78-89
Relax ==
  /\ pc = "relax"
  /\ Neighbor \notin visited
  /\ Neighbor \in DOMAIN distances
  /\ LET new_distance == Plus(current_distance, Weight)
     IN  /\ Improves(new_distance, distances[Neighbor])
         /\ distances' = [distances EXCEPT ![Neighbor] = new_distance]
         /\ priority_queue' = HeapPush(priority_queue, <<new_distance, Neighbor>>)
         /\ steps' = Record(WriteThrough(steps, shared, distances'),
                            RelaxEvent(current_node, Neighbor, new_distance, distances'))
         /\ shared' = SharedWith(shared, distances', Len(steps'))
  /\ examined' = Append(examined, <<current_node, idx>>)
  /\ idx' = idx + 1
  /\ pc' = AfterEdge(current_node, idx + 1)
  /\ UNCHANGED <<graph, hashOrder, start_node, visited, current_distance,
                 current_node, base, engine, returns, calls_left>>

Next ==
  \/ NewEngine
  \/ \E s \in IdsOf(graph) : Call(s)
  \/ Return
  \/ PopStale
  \/ Visit
  \/ VisitKeyError
  \/ SkipVisited
  \/ EdgeKeyError
  \/ NoImprove
  \/ Relax

Spec == Init /\ [][Next]_vars

\* a step of a call in progress: run() is synchronous and keeps executing
RunStep ==
  \/ Return
  \/ PopStale
  \/ Visit
  \/ VisitKeyError
  \/ SkipVisited
  \/ EdgeKeyError
  \/ NoImprove
  \/ Relax

LiveSpec == Spec /\ WF_vars(RunStep)

\* --------------------------------------------------- runs and their events
\* the events a call appended: the trace from where the call found it
EventsOf(tr, b) == SubSeq(tr, b + 1, Len(tr))

FinishedRuns ==
  { [start |-> returns[i].start, outcome |-> returns[i].outcome,
     key |-> returns[i].key, distances |-> returns[i].distances,
     events |-> EventsOf(returns[i].steps, returns[i].base)] : i \in DOMAIN returns }

CurrentRun ==
  IF pc = "idle" THEN {}
  ELSE { [start |-> start_node, outcome |-> "running", key |-> 0, distances |-> distances,
          events |-> EventsOf(steps, base)] }

AllRuns == FinishedRuns \cup CurrentRun

VisitIndexes(ev) == { i \in DOMAIN ev : ev[i].action = "visit_node" }
RelaxIndexes(ev) == { i \in DOMAIN ev : ev[i].action = "relax_edge" }

\* ------------------------------------------- shortest paths by enumeration
Keys == DOMAIN graph
HasEdge(u, v) == \E i \in DOMAIN graph[u] : graph[u][i][1] = v
EdgeWeight(u, v) == graph[u][CHOOSE i \in DOMAIN graph[u] : graph[u][i][1] = v][2]
AllWeightsNonNegative == \A u \in Keys : \A i \in DOMAIN graph[u] : graph[u][i][2] >= 0

RECURSIVE SimplePaths(_, _)
\* the simple paths of at most k edges from s through nodes of the graph
SimplePaths(s, k) ==
  IF k = 0 THEN {<<s>>}
  ELSE LET P == SimplePaths(s, k - 1)
       IN  P \cup { Append(x[1], x[2]) :
                      x \in { y \in P \X Keys :
                                /\ y[2] \notin SeqRange(y[1])
                                /\ HasEdge(y[1][Len(y[1])], y[2]) } }

RECURSIVE PathWeight(_)
PathWeight(p) ==
  IF Len(p) <= 1 THEN 0
  ELSE PathWeight(SubSeq(p, 1, Len(p) - 1)) + EdgeWeight(p[Len(p) - 1], p[Len(p)])

\* every simple path from s
AllPaths(s) == SimplePaths(s, Cardinality(Keys))

\* the nodes some path from s ends in (s itself by the empty path)
ReachSet(s) == { p[Len(p)] : p \in AllPaths(s) }

\* the least weight of the paths P that end in n, Inf when there is none
LeastWeight(P, n) ==
  LET W == { PathWeight(p) : p \in { q \in P : q[Len(q)] = n } }
  IN  IF W = {} THEN Inf ELSE CHOOSE w \in W : \A v \in W : w <= v

\* ---------------------------------------------------------------- claims

\* C1: with weights >= 0 and a start node that is a key of the graph, the
\* distance table run returns gives every node reachable from the start the
\* least path weight from the start (the start itself 0).
C1_ShortestDistances ==
  \A r \in FinishedRuns :
    (r.outcome = "ok" /\ r.start \in Keys /\ AllWeightsNonNegative) =>
      LET P == AllPaths(r.start)
      IN  /\ r.distances[r.start] = 0
          /\ \A n \in Keys : LeastWeight(P, n) # Inf => r.distances[n] = LeastWeight(P, n)

\* the example graph run from A returns {A:0, B:3, C:1, D:8}
C1_Witness ==
  \E r \in FinishedRuns :
    /\ graph = ExampleGraph
    /\ r.outcome = "ok"
    /\ r.start = 1
    /\ r.distances = (1 :> 0) @@ (2 :> 3) @@ (3 :> 1) @@ (4 :> 8)

\* how many visit_node events of ev name node n
VisitCount(ev, n) == Cardinality({ i \in VisitIndexes(ev) : ev[i].current_node = n })

\* the visited-set snapshot before event i: that of the last visit_node event
\* before i, empty when there is none
VisitedBefore(ev, i) ==
  LET before == { j \in VisitIndexes(ev) : j < i }
  IN  IF before = {} THEN {}
      ELSE SeqRange(ev[CHOOSE j \in before : \A k \in before : k <= j].visited_nodes)

\* the k-th visit_node event of a run carries k nodes: the previous visit's
\* nodes plus the node just visited
VisitSnapshotsGrow(ev) ==
  \A i \in VisitIndexes(ev) :
    LET k == Cardinality({ j \in VisitIndexes(ev) : j <= i })
    IN  /\ Len(ev[i].visited_nodes) = k
        /\ Cardinality(SeqRange(ev[i].visited_nodes)) = k
        /\ SeqRange(ev[i].visited_nodes) = VisitedBefore(ev, i) \cup {ev[i].current_node}

\* C2 as stated: in the events of one run, every node of the graph is the
\* current_node of exactly one visit_node event, and the k-th visit_node
\* event's visited snapshot has k elements.
C2_Original ==
  \A r \in FinishedRuns :
    (r.outcome = "ok" /\ r.start \in Keys) =>
      /\ \A n \in Keys : VisitCount(r.events, n) = 1
      /\ VisitSnapshotsGrow(r.events)

\* C2 amended: in the events of one run no node is the current_node of two
\* visit_node events; when the run returns, the nodes visited exactly once are
\* those reachable from the start; the k-th visit_node event's visited
\* snapshot has k elements, the previous snapshot plus the node just visited.
C2_VisitOnce ==
  \A r \in AllRuns :
    /\ \A n \in Keys \cup {r.start} : VisitCount(r.events, n) <= 1
    /\ (r.outcome = "ok" /\ r.start \in Keys) =>
          LET R == ReachSet(r.start)
          IN  \A n \in Keys : VisitCount(r.events, n) = (IF n \in R THEN 1 ELSE 0)
    /\ VisitSnapshotsGrow(r.events)

\* a returned run that popped a stale entry and visited three nodes once each
C2_Witness ==
  \E r \in FinishedRuns :
    /\ graph = StaleGraph
    /\ r.outcome = "ok"
    /\ r.start = 1
    /\ Cardinality(VisitIndexes(r.events)) = 3
    /\ Cardinality(RelaxIndexes(r.events)) = 3

\* C3: every relax_edge event has updated_distance = the recorded distance of
\* 'from' in its snapshot + weight(from, to), strictly below the distance of
\* 'to' just before the event, and its snapshot holds updated_distance for 'to'.
C3_RelaxationCorrect ==
  \A r \in AllRuns : \A i \in RelaxIndexes(r.events) :
    LET e == r.events[i]
    IN  /\ i > 1
        /\ HasEdge(e.from, e.to)
        /\ e.updated_distance = Plus(e.distances[e.from], EdgeWeight(e.from, e.to))
        /\ Less(e.updated_distance, r.events[i - 1].distances[e.to])
        /\ e.distances[e.to] = e.updated_distance

\* a relaxation that lowers an already finite distance (C from 2 to 1)
C3_Witness ==
  \E r \in AllRuns : \E i \in RelaxIndexes(r.events) :
    /\ i > 1
    /\ r.events[i - 1].distances[r.events[i].to] # Inf
    /\ r.events[i].updated_distance < r.events[i - 1].distances[r.events[i].to]

\* C4: within one run, every node's distance in a later snapshot is at most
\* its distance in any earlier snapshot (and the returned table at most the
\* last snapshot); a finite distance never becomes infinite again.
C4_Monotone ==
  \A r \in AllRuns :
    /\ \A i, j \in DOMAIN r.events :
         i < j => \A n \in DOMAIN r.events[i].distances :
                    /\ n \in DOMAIN r.events[j].distances
                    /\ ~Less(r.events[i].distances[n], r.events[j].distances[n])
    /\ r.outcome # "KeyError" =>
         \A i \in DOMAIN r.events : \A n \in DOMAIN r.events[i].distances :
            ~Less(r.events[i].distances[n], r.distances[n])

\* a run whose snapshots show a node at infinity, then finite, then lower
C4_Witness ==
  \E r \in FinishedRuns : \E i, j, k \in DOMAIN r.events : \E n \in Keys :
    /\ i < j /\ j < k
    /\ r.events[i].distances[n] = Inf
    /\ r.events[j].distances[n] # Inf
    /\ r.events[k].distances[n] < r.events[j].distances[n]

\* C5: from a start node in the graph, a node with no path from the start is
\* never visited and never the 'to' of a relaxation, and keeps infinity in the
\* returned table; every reachable node is visited; the returned table has an
\* entry for every key of the graph and no other.
C5_Unreachable ==
  \A r \in AllRuns :
    r.start \in Keys =>
      LET R == ReachSet(r.start)
      IN  /\ \A i \in VisitIndexes(r.events) : r.events[i].current_node \in R
          /\ \A i \in RelaxIndexes(r.events) : r.events[i].to \in R
          /\ r.outcome = "ok" =>
               /\ DOMAIN r.distances = Keys
               /\ \A n \in Keys :
                    IF n \in R
                    THEN VisitCount(r.events, n) >= 1 /\ r.distances[n] # Inf
                    ELSE r.distances[n] = Inf

\* {A:{B:1}, B:{}, C:{}} from A: C stays at infinity, A and B are visited
C5_Witness ==
  \E r \in FinishedRuns :
    /\ graph = DisconnectedGraph
    /\ r.outcome = "ok"
    /\ r.start = 1
    /\ r.distances = (1 :> 0) @@ (2 :> 1) @@ (3 :> Inf)
    /\ VisitCount(r.events, 1) = 1 /\ VisitCount(r.events, 2) = 1 /\ VisitCount(r.events, 3) = 0

\* C6 as stated: run(start_node) with start_node not a key of the graph ends
\* in an error, returns no distance table, and leaves the engine's trace as it
\* was before the call.
C6_UnknownStartRejected ==
  \A r \in FinishedRuns :
    r.start \notin Keys =>
      /\ r.outcome = "KeyError"
      /\ r.distances = << >>
      /\ r.events = << >>

\* the identifiers that are no key and that an edge of a node reachable from
\* s points to
DanglingTargets(s) ==
  UNION { { graph[u][i][1] : i \in { k \in DOMAIN graph[u] : graph[u][k][1] \notin Keys } }
          : u \in ReachSet(s) }

\* C7: from a start node in the graph, an edge of a reachable node to an
\* identifier that is no key makes run raise when that edge is examined: the
\* identifier never gets a distance entry or a frontier entry, is never in an
\* event, and the call returns no table; without such an edge the call returns.
C7_DanglingEdgeRaises ==
  /\ (pc # "idle" /\ start_node \in Keys) =>
        /\ DOMAIN distances = Keys
        /\ \A i \in DOMAIN priority_queue : priority_queue[i][2] \in Keys
        /\ (pc = "relax" /\ Neighbor \notin Keys) =>
              Neighbor \notin visited /\ Neighbor \notin DOMAIN distances
  /\ \A r \in AllRuns :
       r.start \in Keys =>
         /\ \A i \in DOMAIN r.events :
              /\ DOMAIN r.events[i].distances = Keys
              /\ r.events[i].action = "relax_edge" => r.events[i].to \in Keys
              /\ r.events[i].action = "visit_node" => r.events[i].current_node \in Keys
         /\ r.outcome = "KeyError" =>
              r.key \in DanglingTargets(r.start) /\ r.distances = << >>
         /\ r.outcome = "ok" => DanglingTargets(r.start) = {}

\* a run that relaxed an edge and then raised on a dangling one
C7_Witness ==
  \E r \in FinishedRuns :
    /\ r.start \in Keys
    /\ r.outcome = "KeyError"
    /\ r.key \notin Keys
    /\ RelaxIndexes(r.events) # {}

IsPrefix(p, q) == Len(p) <= Len(q) /\ SubSeq(q, 1, Len(p)) = p

\* the call before call i on the same engine, 0 when call i is the first
PreviousOnEngine(i) ==
  LET before == { j \in 1..(i - 1) : returns[j].engine = returns[i].engine }
  IN  IF before = {} THEN 0 ELSE CHOOSE j \in before : \A k \in before : k <= j

\* C8: on one engine, the trace a call leaves is the trace the previous call
\* on that engine left, unchanged and in order, followed by the events of this
\* call; only the first call on an engine starts from an empty trace.
C8_TraceAccumulates ==
  /\ \A i \in DOMAIN returns :
       LET j == PreviousOnEngine(i)
       IN  /\ j = 0 => returns[i].base = 0
           /\ j # 0 =>
                /\ returns[i].base = Len(returns[j].steps)
                /\ returns[i].base > 0
                /\ IsPrefix(returns[j].steps, returns[i].steps)
           /\ Len(returns[i].steps) > returns[i].base
  /\ \A i \in DOMAIN returns :
       returns[i].engine = engine => IsPrefix(returns[i].steps, steps)

\* a second call on the same engine returned the first call's events first
C8_Witness ==
  \E i, j \in DOMAIN returns :
    /\ i < j
    /\ returns[i].engine = returns[j].engine
    /\ returns[i].outcome = "ok" /\ returns[j].outcome = "ok"
    /\ returns[i].start # returns[j].start
    /\ Len(returns[j].steps) > Len(returns[i].steps) + 1

C10_Terminates ==
  /\ (pc # "idle") ~> (pc = "idle")
  /\ [](\A r \in FinishedRuns :
          (r.start \in Keys /\ DanglingTargets(r.start) = {}) => r.outcome = "ok")
  /\ [][(pc # "idle" /\ pc' = "idle" /\ returns'[Len(returns')].outcome = "ok")
          => priority_queue = << >>]_vars

\* a run over a graph with a cycle, with a stale frontier entry, returned
C10_Witness ==
  \E r \in FinishedRuns :
    /\ graph = StaleGraph
    /\ r.outcome = "ok"
    /\ r.start = 3
    /\ Cardinality(VisitIndexes(r.events)) = 3

\* ---------------------------------------------------------------------------
\* the nodes of the visit_node events of ev, in the order of the events
RECURSIVE VisitOrder(_)
VisitOrder(ev) ==
  IF ev = << >> THEN << >>
  ELSE IF ev[1].action = "visit_node"
       THEN <<ev[1].current_node>> \o VisitOrder(Tail(ev))
       ELSE VisitOrder(Tail(ev))

\* C11: visit_node events come in non-decreasing order of the visited node's final
\* distance (the returned table for a finished run, the table so far for a run
\* in progress, where a visited node's entry is already final); the first event
\* of every run is the visit of the start node; on the example graph from A the
\* visit order is A, C, B, D.
C11_VisitOrder ==
  /\ \A r \in AllRuns :
       /\ r.events # << >> =>
            /\ r.events[1].action = "visit_node"
            /\ r.events[1].current_node = r.start
       /\ r.start \in Keys /\ r.outcome # "KeyError" =>
            \A i, j \in VisitIndexes(r.events) :
              i < j => ~Less(r.distances[r.events[j].current_node],
                             r.distances[r.events[i].current_node])
  /\ graph = ExampleGraph =>
       \A r \in AllRuns :
         r.start = 1 => IsPrefix(VisitOrder(r.events), <<1, 3, 2, 4>>)
  /\ graph = ExampleGraph =>
       \A r \in FinishedRuns :
         r.start = 1 => VisitOrder(r.events) = <<1, 3, 2, 4>>

\* the example run has finished with four visits, the third at a distance
\* larger than the second
C11_Witness ==
  /\ graph = ExampleGraph
  /\ \E r \in FinishedRuns :
       /\ r.start = 1
       /\ r.outcome = "ok"
       /\ Len(VisitOrder(r.events)) = 4
       /\ Less(r.distances[3], r.distances[2])

\* ---------------------------------------------------------------------------
\* C12: a finished call on a fresh engine (empty trace at the call) from a start
\* node of the graph with no outgoing edges returned 0 for the start node and
\* infinity for every other node, and its trace is exactly one visit_node event,
\* for the start node, with the initial distance table and the visited set
\* {start}, and no relax_edge event.
C12_IsolatedStart ==
  \A i \in DOMAIN returns :
    LET c == returns[i]
        initial == [n \in Keys |-> IF n = c.start THEN 0 ELSE Inf]
    IN  (c.base = 0 /\ c.start \in Keys /\ graph[c.start] = << >>) =>
          /\ c.outcome = "ok"
          /\ c.distances = initial
          /\ Len(c.steps) = 1
          /\ c.steps[1].action = "visit_node"
          /\ c.steps[1].current_node = c.start
          /\ c.steps[1].distances = initial
          /\ c.steps[1].visited_nodes = <<c.start>>
          /\ RelaxIndexes(c.steps) = {}

\* such a call has returned on a graph with another node besides the start
C12_Witness ==
  \E i \in DOMAIN returns :
    /\ returns[i].base = 0
    /\ returns[i].start \in Keys
    /\ graph[returns[i].start] = << >>
    /\ Keys # {returns[i].start}
    /\ returns[i].outcome = "ok"

\* ---------------------------------------------------------------------------
\* how many entries of the queue pq equal the pair e
Count(pq, e) == Cardinality({ i \in DOMAIN pq : pq[i] = e })

\* the pairs that occur in either queue
Pairs(pq, qq) == SeqRange(pq) \cup SeqRange(qq)

\* a step from inside a call to inside the same call
WithinCall == pc # "idle" /\ pc' # "idle"

\* C13: once a node is in the visited set, it stays there and its recorded
\* distance stays as it is for the rest of the run; no frontier entry is pushed
\* for a visited node; no relax_edge event of a run names as "to" a node that an
\* earlier visit_node event of the run visited.
C13_VisitedFinal ==
  /\ [](\A r \in AllRuns : \A i \in RelaxIndexes(r.events) :
          r.events[i].to \notin VisitedBefore(r.events, i))
  /\ [][WithinCall =>
          /\ visited \subseteq visited'
          /\ \A n \in visited \cap DOMAIN distances : distances'[n] = distances[n]
          /\ \A e \in Pairs(priority_queue, priority_queue') :
               Count(priority_queue', e) > Count(priority_queue, e) => e[2] \notin visited
       ]_vars

\* two nodes are visited and a relax_edge event was recorded after the first visit
C13_Witness ==
  /\ pc # "idle"
  /\ Cardinality(visited) >= 2
  /\ \E i \in RelaxIndexes(EventsOf(steps, base)) :
       VisitedBefore(EventsOf(steps, base), i) # {}

\* ---------------------------------------------------------------------------
\* the keys on which the tables d and e differ
Differ(d, e) == { n \in DOMAIN d : e[n] # d[n] }

\* the trace of the current call, before and after the step
Events == EventsOf(steps, base)
EventsAfter == EventsOf(steps', base')

\* the step examines an edge whose target is a key not yet visited
ExaminesOpenEdge ==
  /\ pc = "relax"
  /\ Neighbor \notin visited
  /\ Neighbor \in DOMAIN distances

\* C14: the distance table changes only at relaxations and every relaxation is
\* recorded. Within a run, a relax_edge event's table differs from the table of
\* the event before it in exactly the "to" entry, which is the event's
\* updated_distance, and a visit_node event's table equals the table of the event
\* before it (the initial table for the first event). An examined edge to an
\* unvisited node appends a relax_edge event, updates the table and pushes a pair
\* exactly when its candidate is strictly smaller than the recorded distance; with
\* an equal or larger candidate the table, the queue and the trace stay as they
\* are. Any step of a call that changes the table appends a relax_edge event.
C14_RelaxationsRecorded ==
  /\ [](\A r \in AllRuns : \A i \in DOMAIN r.events :
          LET e == r.events[i]
              before == IF i = 1
                        THEN [n \in DOMAIN e.distances |-> IF n = r.start THEN 0 ELSE Inf]
                        ELSE r.events[i - 1].distances
          IN  IF e.action = "relax_edge"
              THEN /\ Differ(before, e.distances) = {e.to}
                   /\ e.distances[e.to] = e.updated_distance
              ELSE e.distances = before)
  /\ [][ExaminesOpenEdge =>
          LET candidate == Plus(current_distance, Weight)
          IN  IF Less(candidate, distances[Neighbor])
              THEN /\ distances' = [distances EXCEPT ![Neighbor] = candidate]
                   /\ Len(EventsAfter) = Len(Events) + 1
                   /\ EventsAfter[Len(EventsAfter)].action = "relax_edge"
                   /\ EventsAfter[Len(EventsAfter)].from = current_node
                   /\ EventsAfter[Len(EventsAfter)].to = Neighbor
                   /\ Count(priority_queue', <<candidate, Neighbor>>)
                        = Count(priority_queue, <<candidate, Neighbor>>) + 1
                   /\ Len(priority_queue') = Len(priority_queue) + 1
              ELSE /\ distances' = distances
                   /\ priority_queue' = priority_queue
                   /\ steps' = steps
       ]_vars
  /\ [][WithinCall /\ distances' # distances =>
          /\ Len(EventsAfter) = Len(Events) + 1
          /\ EventsAfter[Len(EventsAfter)].action = "relax_edge"
          /\ EventsAfter[Len(EventsAfter)].distances = distances'
       ]_vars

\* an edge with a candidate equal to the recorded finite distance is being
\* examined after a relaxation was recorded
C14_Witness ==
  /\ ExaminesOpenEdge
  /\ distances[Neighbor] # Inf
  /\ Plus(current_distance, Weight) = distances[Neighbor]
  /\ RelaxIndexes(Events) # {}

\* ---------------------------------------------------------------------------
\* the loop is about to pop a pair whose node is already visited
PopsVisited ==
  /\ pc = "loop"
  /\ priority_queue # << >>
  /\ HeapTop(priority_queue)[2] \in visited

\* C15: popping a pair whose node is already visited is a pure discard: the step
\* removes one copy of that pair from the queue and leaves every other entry, the
\* distance table, the visited set and the trace as they were, and the loop goes
\* on to its next iteration.
C15_StaleDiscard ==
  [][PopsVisited =>
       LET top == HeapTop(priority_queue)
       IN  /\ \A e \in Pairs(priority_queue, priority_queue') :
                Count(priority_queue', e)
                  = Count(priority_queue, e) - (IF e = top THEN 1 ELSE 0)
           /\ Len(priority_queue') = Len(priority_queue) - 1
           /\ distances' = distances
           /\ visited' = visited
           /\ steps' = steps
           /\ pc' = "loop"
    ]_vars

\* a stale pair has just been discarded: the node popped last is visited and was
\* popped at a distance larger than its recorded one, and nothing was visited
\* since, while other pairs wait in the queue
C15_Witness ==
  /\ pc = "loop"
  /\ current_node \in visited
  /\ current_node \in DOMAIN distances
  /\ Less(distances[current_node], current_distance)
  /\ priority_queue # << >>

\* ---------------------------------------------------------------------------
\* where a node stands given a visited set and a queue
PhaseIn(n, vis, pq) ==
  IF n \in vis THEN "visited"
  ELSE IF \E i \in DOMAIN pq : pq[i][2] = n THEN "frontier"
  ELSE "unseen"

Phase(n) == PhaseIn(n, visited, priority_queue)
PhaseAfter(n) == PhaseIn(n, visited', priority_queue')

\* the step appends a relax_edge event for n, the first one of the current call
FirstRelaxation(n) ==
  /\ Len(EventsAfter) = Len(Events) + 1
  /\ EventsAfter[Len(EventsAfter)].action = "relax_edge"
  /\ EventsAfter[Len(EventsAfter)].to = n
  /\ \A i \in RelaxIndexes(Events) : Events[i].to # n

\* the step pops a pair for n while n is not yet visited
PopsUnvisited(n) ==
  /\ pc = "loop"
  /\ priority_queue # << >>
  /\ HeapTop(priority_queue)[2] = n
  /\ n \notin visited

\* C16: within a run a node moves only forward through unseen, frontier,
\* visited. A node has distance infinity exactly when it is unseen (no frontier
\* entry, not visited). A call begins with the start node alone in the frontier
\* at distance 0. A node leaves unseen only into the frontier, and exactly on the
\* step that records its first relaxation; it leaves the frontier only into
\* visited, and exactly on the step that pops a pair for it while it is not yet
\* visited; it never leaves visited.
C16_Lifecycle ==
  /\ [](pc # "idle" =>
          \A n \in DOMAIN distances : (distances[n] = Inf) <=> (Phase(n) = "unseen"))
  /\ [][pc = "idle" /\ pc' # "idle" =>
          /\ priority_queue' = << <<0, start_node'>> >>
          /\ visited' = {}
          /\ distances'[start_node'] = 0
          /\ PhaseAfter(start_node') = "frontier"
       ]_vars
  /\ [][WithinCall =>
          \A n \in DOMAIN distances :
            /\ Phase(n) = "visited" => PhaseAfter(n) = "visited"
            /\ Phase(n) = "frontier" => PhaseAfter(n) \in {"frontier", "visited"}
            /\ Phase(n) = "unseen" => PhaseAfter(n) \in {"unseen", "frontier"}
            /\ (Phase(n) = "unseen" /\ PhaseAfter(n) = "frontier") <=> FirstRelaxation(n)
            /\ (Phase(n) = "frontier" /\ PhaseAfter(n) = "visited") <=> PopsUnvisited(n)
       ]_vars

\* a run in which one node is visited, another waits in the frontier after its
\* relaxation and a third is still unseen
C16_Witness ==
  /\ pc # "idle"
  /\ \E a, b, c \in DOMAIN distances :
       /\ Phase(a) = "visited"
       /\ Phase(b) = "frontier" /\ b # start_node
       /\ Phase(c) = "unseen"

\* ---------------------------------------------------------------------------
\* C17: the trace of an engine is append-only and its snapshots are independent
\* copies. On every step of the same engine (a relaxation, a visit, a return or
\* a later call of run) the events already in the trace keep all their fields,
\* and an event appended by the step carries as "distances" the table as it is
\* at that instant: the unchanged table for a visit_node event, the updated
\* table for a relax_edge event.
C17_AppendOnlySnapshots ==
  /\ [][engine' = engine => IsPrefix(steps, steps')]_vars
  /\ [][engine' = engine /\ Len(steps') > Len(steps) =>
          /\ Len(steps') = Len(steps) + 1
          /\ LET e == steps'[Len(steps')]
             IN  IF e.action = "visit_node"
                 THEN e.distances = distances
                 ELSE /\ e.distances = distances'
                      /\ distances' # distances
       ]_vars

\* a second call on the engine is under way, has relaxed an edge, and an event
\* of the first call still shows a table unlike the live one
C17_Witness ==
  /\ pc # "idle"
  /\ base > 0
  /\ RelaxIndexes(Events) # {}
  /\ \E i \in 1..base : steps[i].distances # distances

\* ---------------------------------------------------------------------------
\* the tentative distances the queue holds for node n
EntriesFor(n) == { priority_queue[i][1] : i \in { j \in DOMAIN priority_queue :
                                                  priority_queue[j][2] = n } }

\* C18: the popped tentative distance and the distance table agree. Whenever a
\* pair is popped for a node not yet visited, its distance equals the node's
\* recorded distance, so while the node's edges are examined the candidate from
\* the popped value is the candidate from the table entry. At every point of a
\* call each unvisited node with a finite recorded distance has a frontier entry
\* equal to that distance and none smaller.
C18_PoppedIsRecorded ==
  /\ [](pc # "idle" =>
          \A n \in (DOMAIN distances) \ visited :
            distances[n] # Inf =>
              /\ distances[n] \in EntriesFor(n)
              /\ \A d \in EntriesFor(n) : ~Less(d, distances[n]))
  /\ [](pc = "relax" =>
          /\ current_distance = distances[current_node]
          /\ Plus(current_distance, Weight) = Plus(distances[current_node], Weight))
  /\ [][(pc = "loop" /\ priority_queue # << >>
           /\ HeapTop(priority_queue)[2] \notin visited) =>
          HeapTop(priority_queue)[1] = distances[HeapTop(priority_queue)[2]]
       ]_vars

\* an unvisited node relaxed twice waits in the frontier with two entries, the
\* larger one stale
C18_Witness ==
  /\ pc = "loop"
  /\ \E n \in (DOMAIN distances) \ visited :
       /\ Cardinality(EntriesFor(n)) >= 2
       /\ distances[n] \in EntriesFor(n)

\* ---------------------------------------------------------------------------
\* the directed edges of the graph, each as <<node, position in its adjacency>>
EdgeSlots == UNION { { <<n, i>> : i \in DOMAIN graph[n] } : n \in Keys }
NumEdges == Cardinality(EdgeSlots)

\* C19: in one run each directed edge is examined at most once; every push after
\* the initial one is made by the examination of one edge, which also records
\* one relax_edge event, so the pushes and the relax_edge events of a run number
\* at most the edges of the graph; the frontier never holds more than edges + 1
\* pairs.
C19_WorkBounded ==
  /\ [](/\ \A i, j \in DOMAIN examined : examined[i] = examined[j] => i = j
        /\ SeqRange(examined) \subseteq EdgeSlots
        /\ Len(examined) <= NumEdges
        /\ \A r \in AllRuns : Cardinality(RelaxIndexes(r.events)) <= NumEdges
        /\ Cardinality(RelaxIndexes(Events)) <= Len(examined)
        /\ Len(priority_queue) <= NumEdges + 1)
  /\ [][WithinCall /\ Len(priority_queue') > Len(priority_queue) =>
          /\ Len(priority_queue') = Len(priority_queue) + 1
          /\ examined' = Append(examined, <<current_node, idx>>)
          /\ Cardinality(RelaxIndexes(EventsAfter)) = Cardinality(RelaxIndexes(Events)) + 1
       ]_vars

\* every edge of a graph with at least two edges has been examined in the latest
\* call, and a finished run recorded a relaxation for every edge
C19_Witness ==
  /\ NumEdges >= 2
  /\ Len(examined) = NumEdges
  /\ \E r \in FinishedRuns :
       Cardinality(RelaxIndexes(r.events)) = NumEdges

====
